---- MODULE Spec2Model ----
(***************************************************************************)
(* A model of the HTTP gateway in frontend.go: the route table built at    *)
(* startup from the configuration, the router's prefix match, the          *)
(* director's URL rewrite, the status-capturing response writer with the   *)
(* access logger around it, and the server's graceful shutdown.            *)
(*                                                                         *)
(* Strings are sequences of one-character strings.  Six specifications     *)
(* share the variables:                                                    *)
(*   Spec         startup (main's loop over the routes) and the server's   *)
(*                life cycle with its connections and the drain timer;     *)
(*   LiveSpec     Spec with the fairness of the timer and of graceful;     *)
(*   RewriteSpec  one request through the router and the director;         *)
(*   HandlerSpec  one request through the router, the CORS and logging     *)
(*                middleware and the handler's calls on the writer.        *)
(*   RepeatSpec   successive requests through the same directors, an       *)
(*                earlier one remembered for comparison;                   *)
(*   ConcSpec     requests in flight together, each with its own wrapper.  *)
(***************************************************************************)
EXTENDS Integers, Sequences, FiniteSets, TLC

VARIABLES
    config,     \* config.Routes in the order main's range loop visits it
    table,      \* the routes registered on the mux router so far
    server,     \* "Starting", "Serving", "Draining", "Stopped" or "Fatal"
    conns,      \* per connection: "none", "active", "done" or "killed"
    clock,      \* seconds elapsed since the shutdown signal
    pc,         \* position of the request being followed
    req,        \* the inbound request
    route,      \* index in table of the route it was dispatched to, 0 if none
    out,        \* the request after the director
    w,          \* StatusLoggingResponseWriter.status
    rw,         \* the underlying http.ResponseWriter
    calls,      \* calls the handler has made on the writer
    records,    \* the access-log records emitted for the request, in order
    atSignal,   \* the connections graceful tracked when the signal arrived
    direct,     \* the underlying writer, had the handler been given it unwrapped
    fault,      \* "unavailable" once the proxy found the backend unreachable
    prev,       \* an earlier application of a director: request, route, result
    flight      \* per concurrent request: its position, wrapper and record

vars == <<config, table, server, conns, clock, pc, req, route, out, w, rw,
          calls, records, atSignal, direct, fault, prev, flight>>

reqVars == <<pc, req, route, out, w, rw, calls, records, direct, fault>>
srvVars == <<config, table, server, conns, clock, atSignal>>
auxVars == <<prev, flight>>

(***************************************************************************)
(* Bounds.                                                                 *)
(***************************************************************************)
\* longest request path is "/" followed by MaxRest characters
MaxRest == 4
\* most calls a handler makes on the response writer
MaxCalls == 3
\* connections followed through the server's life cycle
MaxConns == 2

(***************************************************************************)
(* Strings.                                                                *)
(***************************************************************************)
RECURSIVE SeqsUpTo(_, _)
SeqsUpTo(S, n) ==
    IF n = 0 THEN {<<>>}
    ELSE LET shorter == SeqsUpTo(S, n - 1)
         IN  shorter \cup {Append(s, c) : s \in {t \in shorter : Len(t) = n - 1}, c \in S}

\* strings.HasPrefix
HasPrefix(s, p) ==
    /\ Len(s) >= Len(p)
    /\ \A i \in 1..Len(p) : s[i] = p[i]

\* s[n:] of Go, n counted from 0
Drop(s, n) == SubSeq(s, n + 1, Len(s))

\* strings.Index for a one-character needle, 1-based, 0 when absent
IndexOf(s, c) ==
    IF \E i \in 1..Len(s) : s[i] = c
    THEN CHOOSE i \in 1..Len(s) : s[i] = c /\ \A j \in 1..(i - 1) : s[j] # c
    ELSE 0

\* faulty variant of strings.TrimPrefix: strips nothing
TrimPrefixNone(s, p) == s

\* strings.TrimPrefix
TrimPrefix(s, p) == IF HasPrefix(s, p) THEN Drop(s, Len(p)) ELSE s

(***************************************************************************)
(* url.Parse on the backend URL strings of the configuration.  The         *)
(* characters ":", "/", "?" and "%" are the ones the parser treats         *)
(* specially; every other character is a letter that is no hex digit, so   *)
(* a "%" never starts a valid escape.                                      *)
(***************************************************************************)
IsLetter(c) == c \notin {":", "/", "?", "%"}

NoUrl == [err |-> TRUE, scheme |-> <<>>, host |-> <<>>, path |-> <<>>,
          rawQuery |-> <<>>, opaque |-> <<>>]

\* url.getScheme: <<ok, scheme, rest>>
GetScheme(s) ==
    LET stop == IF \E i \in 1..Len(s) : ~IsLetter(s[i])
                THEN CHOOSE i \in 1..Len(s) :
                        ~IsLetter(s[i]) /\ \A j \in 1..(i - 1) : IsLetter(s[j])
                ELSE 0
    IN  IF stop = 0 \/ s[stop] # ":" THEN <<TRUE, <<>>, s>>
        ELSE IF stop = 1 THEN <<FALSE, <<>>, <<>>>>
        ELSE <<TRUE, SubSeq(s, 1, stop - 1), Drop(s, stop)>>

\* url.Parse
ParseUrl(s) ==
    LET gs     == GetScheme(s)
        scheme == gs[2]
        q      == IndexOf(gs[3], "?")
        rest   == IF q = 0 THEN gs[3] ELSE SubSeq(gs[3], 1, q - 1)
        query  == IF q = 0 THEN <<>> ELSE Drop(gs[3], q)
        slash  == IndexOf(rest, "/")
        seg    == IF slash = 0 THEN rest ELSE SubSeq(rest, 1, slash - 1)
        auth   == HasPrefix(rest, <<"/", "/">>)
                    /\ (scheme # <<>> \/ ~HasPrefix(rest, <<"/", "/", "/">>))
        after  == Drop(rest, 2)
        cut    == IndexOf(after, "/")
        host   == IF ~auth THEN <<>>
                  ELSE IF cut = 0 THEN after ELSE SubSeq(after, 1, cut - 1)
        path   == IF ~auth THEN rest
                  ELSE IF cut = 0 THEN <<>> ELSE Drop(after, cut - 1)
    IN  IF ~gs[1] THEN NoUrl
        ELSE IF ~HasPrefix(rest, <<"/">>) /\ scheme # <<>>
        THEN [err |-> FALSE, scheme |-> scheme, host |-> <<>>, path |-> <<>>,
              rawQuery |-> query, opaque |-> rest]
        ELSE IF ~HasPrefix(rest, <<"/">>) /\ IndexOf(seg, ":") # 0 THEN NoUrl
        ELSE IF IndexOf(host, "%") # 0 THEN NoUrl
        ELSE IF IndexOf(path, "%") # 0 THEN NoUrl
        ELSE [err |-> FALSE, scheme |-> scheme, host |-> host, path |-> path,
              rawQuery |-> query, opaque |-> <<>>]

\* the URL is absolute: it has a scheme and a host
IsAbsolute(u) == ~u.err /\ u.scheme # <<>> /\ u.host # <<>>

(***************************************************************************)
(* The configuration: route names and backend URL strings.                 *)
(***************************************************************************)
\* the keys of config.Routes that are followed
RouteNames == {<<"a">>, <<"a", "b">>, <<"a", "/", "b">>}

\* "h://o/p?k": scheme, host, base path and static query
UrlFull == <<"h", ":", "/", "/", "o", "/", "p", "?", "k">>
\* "h://o": scheme and host only
UrlPlain == <<"h", ":", "/", "/", "o">>
\* "o/p": parses, with neither scheme nor host
UrlRelative == <<"o", "/", "p">>
\* ":o": does not parse (missing protocol scheme)
UrlMalformed == <<":", "o">>

\* the values of config.Routes that are followed
AllUrls == {UrlFull, UrlPlain, UrlRelative, UrlMalformed}

\* the largest number of routes in a configuration
MaxRoutes == 2

\* Config.Routes is a map: the keys are distinct, and range visits them in
\* any order
ConfigsOver(urls) ==
    {c \in UNION {[1..n -> [base : RouteNames, redirectUrl : urls]] : n \in 1..MaxRoutes} :
        \A i, j \in 1..Len(c) : i # j => c[i].base # c[j].base}

\* fmt.Sprintf("/%s", base), the basePath given to NewRewriteReverseProxy
BasePath(base) == <<"/">> \o base

\* faulty variant of the template: no trailing slash
PrefixTemplateNoSlash(base) == <<"/">> \o base

\* fmt.Sprintf("/%s/", base), the template given to PathPrefix
PrefixTemplate(base) == <<"/">> \o base \o <<"/">>

\* what one iteration of main's loop registers: the proxy's captured
\* basePath, target and targetQuery, and the route's template
NewRoute(entry) ==
    LET target == ParseUrl(entry.redirectUrl)
    IN  [basePath    |-> BasePath(entry.base),
         template    |-> PrefixTemplate(entry.base),
         target      |-> target,
         targetQuery |-> target.rawQuery]

\* the router once main's loop has run over the whole configuration
BuildTable(c) == [i \in 1..Len(c) |-> NewRoute(c[i])]

(***************************************************************************)
(* Requests.                                                               *)
(***************************************************************************)
PathChars == {"/", "a", "b"}

\* request paths: they begin with "/"
Paths == {<<"/">> \o s : s \in SeqsUpTo(PathChars, MaxRest)}

\* raw queries of inbound requests
Queries == {<<>>, <<"q">>, <<"q", "&", "r">>}

\* status codes a handler passes to WriteHeader
StatusCodes == {200, 404, 502}

\* the values of the X-Request-Id header of a request: none, one empty
\* value, one non-empty value
RequestIdHeaders == {<<>>, << <<>> >>, << <<"i">> >>}

\* an inbound request: the fields of req.URL (scheme and host are empty on
\* a request a server receives), the method, the Host field, the remote
\* address, the X-Request-Id header and the body; preflight says that it
\* is a CORS preflight request
InboundRequest(path, rawQuery, preflight, xRequestId) ==
    [scheme     |-> <<>>,
     host       |-> <<>>,
     path       |-> path,
     rawQuery   |-> rawQuery,
     method     |-> IF preflight THEN "OPTIONS" ELSE "GET",
     hostField  |-> <<"g">>,
     remoteAddr |-> <<"c">>,
     xRequestId |-> xRequestId,
     body       |-> <<"d">>,
     preflight  |-> preflight]

NoReq == [scheme |-> <<>>, host |-> <<>>, path |-> <<>>, rawQuery |-> <<>>,
          method |-> "", hostField |-> <<>>, remoteAddr |-> <<>>,
          xRequestId |-> <<>>, body |-> <<>>, preflight |-> FALSE]
NoOut == NoReq
\* a response writer on which nothing was written yet
FreshWriter == [wroteHeader |-> FALSE, status |-> 0, flushed |-> FALSE]

\* mux's cleanPath on a path of PathChars (no "." segments): runs of
\* slashes collapse to one
RECURSIVE CleanPath(_)
CleanPath(p) ==
    IF Len(p) < 2 THEN p
    ELSE IF p[1] = "/" /\ p[2] = "/" THEN CleanPath(Tail(p))
    ELSE <<p[1]>> \o CleanPath(Tail(p))

\* faulty variant of the matcher: every path matches
PathPrefixMatchAny(path, template) == TRUE

\* mux's PathPrefix matcher: the template is a literal, matched at the
\* start of the path
PathPrefixMatch(path, template) == HasPrefix(path, template)

\* mux's Router.Match: the first registered route that matches, 0 if none
MatchRoute(tbl, path) ==
    IF \E i \in 1..Len(tbl) : PathPrefixMatch(path, tbl[i].template)
    THEN CHOOSE i \in 1..Len(tbl) :
            /\ PathPrefixMatch(path, tbl[i].template)
            /\ \A j \in 1..(i - 1) : ~PathPrefixMatch(path, tbl[j].template)
    ELSE 0

\* faulty variant of the query merge: always joins with "&"
MergeQueryAlwaysAmp(targetQuery, rawQuery) == targetQuery \o <<"&">> \o rawQuery

\* the director's query merge
MergeQuery(targetQuery, rawQuery) ==
    IF targetQuery = <<>> \/ rawQuery = <<>>
    THEN targetQuery \o rawQuery
    ELSE targetQuery \o <<"&">> \o rawQuery

\* faulty variant of the director: it also sets the request's Host field
DirectorSetsHost(r, rt) ==
    [r EXCEPT !.scheme    = rt.target.scheme,
              !.host      = rt.target.host,
              !.hostField = rt.target.host,
              !.path      = TrimPrefix(r.path, rt.basePath),
              !.rawQuery  = MergeQuery(rt.targetQuery, r.rawQuery)]

\* the director of the proxy registered as rt, applied to request r: it
\* assigns four fields of req.URL
Director(r, rt) ==
    [r EXCEPT !.scheme   = rt.target.scheme,
              !.host     = rt.target.host,
              !.path     = TrimPrefix(r.path, rt.basePath),
              !.rawQuery = MergeQuery(rt.targetQuery, r.rawQuery)]

\* faulty variant of the closure: the call appends the inbound query to
\* the captured targetQuery
CapturedAfterAccumulating(r, rt) ==
    [rt EXCEPT !.targetQuery = MergeQuery(rt.targetQuery, r.rawQuery)]

\* the variables the director's closure captured (basePath, target,
\* targetQuery) after a call: the director only reads them
CapturedAfter(r, rt) == rt

\* http.ResponseWriter.WriteHeader of net/http: the first call sends the
\* status, later calls are superfluous and ignored
RwWriteHeader(x, code) ==
    IF x.wroteHeader THEN x
    ELSE [x EXCEPT !.wroteHeader = TRUE, !.status = code]

\* http.ResponseWriter.Write of net/http: sends 200 first if no status was
\* sent yet
RwWrite(x) == RwWriteHeader(x, 200)

\* http.Flusher.Flush of net/http's writer: sends the header if need be and
\* flushes what is buffered
RwFlush(x) == [RwWriteHeader(x, 200) EXCEPT !.flushed = TRUE]

\* faulty variant of the status capture: the status is not stored
CapturedStatusKept(status, statusCode) == status

\* w.status = statusCode in StatusLoggingResponseWriter.WriteHeader
CapturedStatus(status, statusCode) == statusCode

\* r.Header.Get("X-Request-Id"): the first value, "" when there is none
HeaderGet(values) == IF values = <<>> THEN <<>> ELSE values[1]

\* faulty variant of the record: the request_id field is always there
LogRecordAlwaysId(r, status) ==
    [request |-> r.path, method |-> r.method, remote |-> r.remoteAddr,
     status |-> status, request_id |-> HeaderGet(r.xRequestId)]

\* the fields of the access-log record: request_id only for a non-empty
\* X-Request-Id
LogRecord(r, status) ==
    LET reqID == HeaderGet(r.xRequestId)
        entry == [request |-> r.path, method |-> r.method,
                  remote |-> r.remoteAddr, status |-> status]
    IN  IF reqID # <<>> THEN entry @@ [request_id |-> reqID] ELSE entry

(***************************************************************************)
(* One request through the router, the middleware and the proxy.           *)
(***************************************************************************)
\* positions at which the server is done with the request
Terminal == {"redirected", "notfound", "preflight", "done", "aborted"}

\* mux's Router.ServeHTTP, the handler given to graceful.Run: an unclean
\* path is redirected, a path no route matches gets the NotFoundHandler,
\* any other goes to the handler of the first matching route
RouterServeHTTP(path, rawQuery, preflight, xRequestId) ==
    /\ server = "Serving"
    /\ pc = "idle"
    /\ req' = InboundRequest(path, rawQuery, preflight, xRequestId)
    /\ IF CleanPath(path) # path
       THEN /\ pc' = "redirected"
            /\ route' = 0
            /\ rw' = RwWriteHeader(FreshWriter, 301)
       ELSE IF MatchRoute(table, path) = 0
       THEN /\ pc' = "notfound"
            /\ route' = 0
            /\ rw' = RwWriteHeader(FreshWriter, 404)
       ELSE /\ pc' = "dispatched"
            /\ route' = MatchRoute(table, path)
            /\ rw' = FreshWriter
    /\ direct' = rw'
    /\ fault' = "none"
    /\ out' = NoOut
    /\ w' = 0
    /\ calls' = 0
    /\ records' = <<>>
    /\ UNCHANGED <<srvVars, auxVars>>

\* NewCombinedHandler's handler: cors answers a preflight request itself
\* (with 200 or 204, by its version) and passes any other request on to
\* NewLogrusHandler's closure, which wraps the writer in a
\* StatusLoggingResponseWriter with status 200 and calls the handler
CombinedHandler ==
    /\ pc = "dispatched"
    /\ IF req.preflight
       THEN /\ pc' = "preflight"
            /\ \E code \in {200, 204} : rw' = RwWriteHeader(rw, code)
            /\ w' = w
       ELSE /\ pc' = "proxy"
            /\ w' = 200
            /\ rw' = rw
    /\ direct' = rw'
    /\ UNCHANGED <<req, route, out, calls, records, fault>>
    /\ UNCHANGED <<srvVars, auxVars>>

\* ReverseProxy.ServeHTTP begins: the route's director rewrites the URL
ProxyDirector ==
    /\ pc = "proxy"
    /\ out' = Director(req, table[route])
    /\ table' = [table EXCEPT ![route] = CapturedAfter(req, table[route])]
    /\ pc' = "handling"
    /\ UNCHANGED <<req, route, w, rw, calls, records, direct, fault>>
    /\ UNCHANGED <<config, server, conns, clock, atSignal, auxVars>>

\* ReverseProxy.ServeHTTP when the round trip to the backend fails, which
\* is before it wrote anything: its error handler calls WriteHeader with
\* http.StatusBadGateway on the writer it was given and ServeHTTP returns
ProxyBackendUnavailable ==
    /\ pc = "handling"
    /\ calls = 0
    /\ fault = "none"
    /\ fault' = "unavailable"
    /\ w' = CapturedStatus(w, 502)
    /\ rw' = RwWriteHeader(rw, 502)
    /\ direct' = RwWriteHeader(direct, 502)
    /\ calls' = calls + 1
    /\ pc' = "returned"
    /\ UNCHANGED <<req, route, out, records>>
    /\ UNCHANGED <<srvVars, auxVars>>

\* StatusLoggingResponseWriter.WriteHeader, called by the handler
CallWriteHeader(statusCode) ==
    /\ pc = "handling"
    /\ calls < MaxCalls
    /\ w' = CapturedStatus(w, statusCode)
    /\ rw' = RwWriteHeader(rw, statusCode)
    /\ direct' = RwWriteHeader(direct, statusCode)
    /\ calls' = calls + 1
    /\ UNCHANGED <<pc, req, route, out, records, fault>>
    /\ UNCHANGED <<srvVars, auxVars>>

\* StatusLoggingResponseWriter.Write, called by the handler
CallWrite ==
    /\ pc = "handling"
    /\ calls < MaxCalls
    /\ rw' = RwWrite(rw)
    /\ direct' = RwWrite(direct)
    /\ calls' = calls + 1
    /\ UNCHANGED <<pc, req, route, out, w, records, fault>>
    /\ UNCHANGED <<srvVars, auxVars>>

\* the handler asks its writer for http.Flusher to flush (ReverseProxy does
\* for streamed responses and trailers): *StatusLoggingResponseWriter has
\* the methods Status, Header, Write and WriteHeader only, so the type
\* assertion fails and nothing is flushed; net/http's own writer flushes
CallFlush ==
    /\ pc = "handling"
    /\ calls < MaxCalls
    /\ rw' = rw
    /\ direct' = RwFlush(direct)
    /\ calls' = calls + 1
    /\ UNCHANGED <<pc, req, route, out, w, records, fault>>
    /\ UNCHANGED <<srvVars, auxVars>>

\* the handler returns to NewLogrusHandler's closure
HandlerReturn ==
    /\ pc = "handling"
    /\ pc' = "returned"
    /\ UNCHANGED <<req, route, out, w, rw, calls, records, direct, fault>>
    /\ UNCHANGED <<srvVars, auxVars>>

\* the handler panics (ReverseProxy aborts with http.ErrAbortHandler when
\* copying the response fails): the closure has no defer, so the panic
\* unwinds past it to net/http, which closes the connection
HandlerPanic ==
    /\ pc = "handling"
    /\ pc' = "aborted"
    /\ UNCHANGED <<req, route, out, w, rw, calls, records, direct, fault>>
    /\ UNCHANGED <<srvVars, auxVars>>

\* the closure after the handler: one record with the captured status
EmitLog ==
    /\ pc = "returned"
    /\ records' = Append(records, LogRecord(req, w))
    /\ pc' = "logged"
    /\ UNCHANGED <<req, route, out, w, rw, calls, direct, fault>>
    /\ UNCHANGED <<srvVars, auxVars>>

\* net/http finishes the request: a handler that wrote nothing sends 200
FinishRequest ==
    /\ pc = "logged"
    /\ rw' = RwWriteHeader(rw, 200)
    /\ direct' = RwWriteHeader(direct, 200)
    /\ pc' = "done"
    /\ UNCHANGED <<req, route, out, w, calls, records, fault>>
    /\ UNCHANGED <<srvVars, auxVars>>

\* the next request is followed
NextRequest ==
    /\ pc \in Terminal
    /\ pc' = "idle"
    /\ req' = NoReq
    /\ route' = 0
    /\ out' = NoOut
    /\ w' = 0
    /\ rw' = FreshWriter
    /\ direct' = FreshWriter
    /\ fault' = "none"
    /\ calls' = 0
    /\ records' = <<>>
    /\ UNCHANGED <<srvVars, auxVars>>

InitRequest ==
    /\ pc = "idle"
    /\ req = NoReq
    /\ route = 0
    /\ out = NoOut
    /\ w = 0
    /\ rw = FreshWriter
    /\ direct = FreshWriter
    /\ fault = "none"
    /\ calls = 0
    /\ records = <<>>

Conns == 1..MaxConns

\* the server is serving the table built from configuration c
InitServing(c) ==
    /\ config = c
    /\ table = BuildTable(c)
    /\ server = "Serving"
    /\ conns = [c2 \in Conns |-> "none"]
    /\ clock = 0
    /\ atSignal = {}

\* concurrent requests followed
MaxConcurrent == 2
Reqs == 1..MaxConcurrent

\* no earlier application of a director is remembered
NoPrev == [route |-> 0, req |-> NoReq, out |-> NoOut]

\* a request that has not arrived: no wrapper, no record
IdleFlight == [pc |-> "idle", route |-> 0, w |-> 0, own |-> 0, logged |-> 0]

InitAux ==
    /\ prev = NoPrev
    /\ flight = [i \in Reqs |-> IdleFlight]

RewriteInit ==
    /\ \E c \in ConfigsOver({UrlFull, UrlPlain}) : InitServing(c)
    /\ InitRequest
    /\ InitAux

RewriteNext ==
    \/ \E path \in Paths, rawQuery \in Queries :
            RouterServeHTTP(path, rawQuery, FALSE, <<>>)
    \/ CombinedHandler
    \/ ProxyDirector
    \/ HandlerReturn
    \/ EmitLog
    \/ FinishRequest
    \/ NextRequest

RewriteSpec == RewriteInit /\ [][RewriteNext]_vars

\* the request paths followed through the handler: no route, routes a, ab
\* and a/b, and an unclean path
HandlerPaths ==
    {<<"/">>, <<"/", "a", "/">>, <<"/", "a", "/", "b">>, <<"/", "a", "b", "/">>,
     <<"/", "a", "/", "b", "/">>, <<"/", "/", "a">>}

HandlerInit ==
    /\ \E c \in {cc \in ConfigsOver({UrlFull}) : Len(cc) = 1} : InitServing(c)
    /\ InitRequest
    /\ InitAux

HandlerNext ==
    \/ \E path \in HandlerPaths, preflight \in BOOLEAN, xRequestId \in RequestIdHeaders :
            RouterServeHTTP(path, <<>>, preflight, xRequestId)
    \/ CombinedHandler
    \/ ProxyDirector
    \/ ProxyBackendUnavailable
    \/ \E statusCode \in StatusCodes : CallWriteHeader(statusCode)
    \/ CallWrite
    \/ CallFlush
    \/ HandlerReturn
    \/ HandlerPanic
    \/ EmitLog
    \/ FinishRequest
    \/ NextRequest

HandlerSpec == HandlerInit /\ [][HandlerNext]_vars

(***************************************************************************)
(* Repeated requests (RepeatSpec) and concurrent requests (ConcSpec).      *)
(***************************************************************************)
\* the configuration followed there: a -> h://o/p?k and ab -> h://o
TwoRoutes ==
    <<[base |-> <<"a">>, redirectUrl |-> UrlFull],
      [base |-> <<"a", "b">>, redirectUrl |-> UrlPlain]>>

\* a finished request that went through a director is remembered, to be
\* compared with the requests that follow
Observe ==
    /\ pc = "done"
    /\ prev' = [route |-> route, req |-> req, out |-> out]
    /\ UNCHANGED <<reqVars, srvVars, flight>>

RepeatInit ==
    /\ InitServing(TwoRoutes)
    /\ InitRequest
    /\ InitAux

RepeatNext ==
    \/ \E path \in HandlerPaths, rawQuery \in Queries :
            RouterServeHTTP(path, rawQuery, FALSE, <<>>)
    \/ CombinedHandler
    \/ ProxyDirector
    \/ HandlerReturn
    \/ EmitLog
    \/ FinishRequest
    \/ Observe
    \/ NextRequest

RepeatSpec == RepeatInit /\ [][RepeatNext]_vars

\* faulty variant of the wrapper: one status shared by all the requests
StoreStatusShared(f, i, statusCode) ==
    [j \in DOMAIN f |->
        IF j = i THEN [f[j] EXCEPT !.w = statusCode, !.own = statusCode]
        ELSE [f[j] EXCEPT !.w = statusCode]]

\* WriteHeader on the wrapper of request i: the wrapper is the one that
\* request's closure allocated
StoreStatus(f, i, statusCode) ==
    [f EXCEPT ![i].w = statusCode, ![i].own = statusCode]

\* request i arrives for route r: the closure allocates its wrapper with
\* status 200 and the route's director runs
ConcBegin(i, r) ==
    /\ server = "Serving"
    /\ flight[i].pc = "idle"
    /\ flight' = [flight EXCEPT ![i] =
                    [pc |-> "handling", route |-> r, w |-> 200, own |-> 0, logged |-> 0]]
    /\ table' = [table EXCEPT ![r] =
                    CapturedAfter(InboundRequest(table[r].template, <<"q">>, FALSE, <<>>),
                                  table[r])]
    /\ UNCHANGED <<config, server, conns, clock, atSignal, prev>>
    /\ UNCHANGED reqVars

\* the handler of request i calls WriteHeader on its writer
ConcWriteHeader(i, statusCode) ==
    /\ flight[i].pc = "handling"
    /\ flight' = StoreStatus(flight, i, statusCode)
    /\ UNCHANGED <<reqVars, srvVars, prev>>

\* the handler of request i returns and the closure emits the record
ConcLog(i) ==
    /\ flight[i].pc = "handling"
    /\ flight' = [flight EXCEPT ![i].pc = "logged", ![i].logged = flight[i].w]
    /\ UNCHANGED <<reqVars, srvVars, prev>>

\* request i is over
ConcFinish(i) ==
    /\ flight[i].pc = "logged"
    /\ flight' = [flight EXCEPT ![i] = IdleFlight]
    /\ UNCHANGED <<reqVars, srvVars, prev>>

ConcInit ==
    /\ InitServing(TwoRoutes)
    /\ InitRequest
    /\ InitAux

ConcNext ==
    \/ \E i \in Reqs, r \in 1..Len(table) : ConcBegin(i, r)
    \/ \E i \in Reqs, statusCode \in StatusCodes : ConcWriteHeader(i, statusCode)
    \/ \E i \in Reqs : ConcLog(i)
    \/ \E i \in Reqs : ConcFinish(i)

ConcSpec == ConcInit /\ [][ConcNext]_vars

(***************************************************************************)
(* Startup and the server's life cycle (Spec, LiveSpec).                   *)
(***************************************************************************)
\* graceful.Run's timeout argument, in seconds
DrainTimeout == 10

\* one iteration of main's loop: NewRewriteReverseProxy parses the backend
\* URL and log.Fatal exits the process on a parse error; otherwise the
\* route is registered
RegisterRoute ==
    /\ server = "Starting"
    /\ Len(table) < Len(config)
    /\ LET rt == NewRoute(config[Len(table) + 1])
       IN  IF rt.target.err
           THEN /\ server' = "Fatal"
                /\ table' = table
           ELSE /\ server' = server
                /\ table' = Append(table, rt)
    /\ UNCHANGED <<config, conns, clock, atSignal>>
    /\ UNCHANGED <<reqVars, auxVars>>

\* graceful.Run after the loop: the server listens and serves
Run ==
    /\ server = "Starting"
    /\ Len(table) = Len(config)
    /\ server' = "Serving"
    /\ UNCHANGED <<config, table, conns, clock, atSignal>>
    /\ UNCHANGED <<reqVars, auxVars>>

\* a connection is accepted and its request is in flight
Accept(c) ==
    /\ server = "Serving"
    /\ conns[c] = "none"
    /\ conns' = [conns EXCEPT ![c] = "active"]
    /\ UNCHANGED <<config, table, server, clock, atSignal>>
    /\ UNCHANGED <<reqVars, auxVars>>

\* the request of a connection completes: its response is delivered and
\* the connection leaves graceful's set
Complete(c) ==
    /\ server \in {"Serving", "Draining"}
    /\ conns[c] = "active"
    /\ conns' = [conns EXCEPT ![c] = "done"]
    /\ UNCHANGED <<config, table, server, clock, atSignal>>
    /\ UNCHANGED <<reqVars, auxVars>>

\* faulty variant of the shutdown: stops at once, closing what is in flight
SignalAbrupt ==
    /\ server = "Serving"
    /\ server' = "Stopped"
    /\ clock' = 0
    /\ atSignal' = {c \in Conns : conns[c] = "active"}
    /\ conns' = [c \in Conns |-> IF conns[c] = "active" THEN "killed" ELSE conns[c]]
    /\ UNCHANGED <<config, table>>
    /\ UNCHANGED <<reqVars, auxVars>>

\* SIGINT or SIGTERM: graceful closes the listener and starts the timer
Signal ==
    /\ server = "Serving"
    /\ server' = "Draining"
    /\ clock' = 0
    /\ atSignal' = {c \in Conns : conns[c] = "active"}
    /\ UNCHANGED <<config, table, conns>>
    /\ UNCHANGED <<reqVars, auxVars>>

\* a second of the drain passes
Tick ==
    /\ server = "Draining"
    /\ clock < DrainTimeout
    /\ clock' = clock + 1
    /\ UNCHANGED <<config, table, server, conns, atSignal>>
    /\ UNCHANGED <<reqVars, auxVars>>

\* graceful's set of connections is empty: Run returns and main exits
Drained ==
    /\ server = "Draining"
    /\ \A c \in Conns : conns[c] # "active"
    /\ server' = "Stopped"
    /\ UNCHANGED <<config, table, conns, clock, atSignal>>
    /\ UNCHANGED <<reqVars, auxVars>>

\* faulty variant of the drain timer: it never fires
DrainTimeoutNever ==
    /\ FALSE
    /\ UNCHANGED vars

\* the timer fires (a timeout of 0 means no timer): graceful closes the
\* connections still in its set, Run returns and main exits
DrainTimeoutExpired ==
    /\ server = "Draining"
    /\ DrainTimeout > 0
    /\ clock = DrainTimeout
    /\ conns' = [c \in Conns |-> IF conns[c] = "active" THEN "killed" ELSE conns[c]]
    /\ server' = "Stopped"
    /\ UNCHANGED <<config, table, clock, atSignal>>
    /\ UNCHANGED <<reqVars, auxVars>>

Init ==
    /\ config \in ConfigsOver(AllUrls)
    /\ table = <<>>
    /\ server = "Starting"
    /\ conns = [c \in Conns |-> "none"]
    /\ clock = 0
    /\ atSignal = {}
    /\ InitRequest
    /\ InitAux

Next ==
    \/ RegisterRoute
    \/ Run
    \/ \E c \in Conns : Accept(c)
    \/ \E c \in Conns : Complete(c)
    \/ Signal
    \/ Tick
    \/ Drained
    \/ DrainTimeoutExpired

Spec == Init /\ [][Next]_vars

\* time passes and graceful's goroutines run; a request need not complete
LiveSpec ==
    /\ Spec
    /\ WF_vars(Tick)
    /\ WF_vars(Drained)
    /\ WF_vars(DrainTimeoutExpired)

\* C8: if a backend URL of the configuration is not an absolute URL, the
\* server never serves.
C8_NonAbsoluteUrlIsFatal ==
    (\E i \in 1..Len(config) : ~IsAbsolute(ParseUrl(config[i].redirectUrl)))
        => server \notin {"Serving", "Draining", "Stopped"}

\* once the signal has arrived, no connection is accepted and a delivered
\* response stays delivered
NoAcceptAfterSignal ==
    server \in {"Draining", "Stopped"} =>
        \A c \in Conns :
            /\ conns[c] = "none" => conns'[c] = "none"
            /\ conns[c] = "done" => conns'[c] = "done"

\* the step that stops the server is taken while draining, when no request
\* is in flight or the timeout has elapsed, and before the timeout it
\* closes no connection
StopsOnlyWhenDrained ==
    (server # "Stopped" /\ server' = "Stopped") =>
        /\ server = "Draining"
        /\ (\A c \in Conns : conns[c] # "active") \/ clock = DrainTimeout
        /\ \A c \in Conns : conns'[c] = "killed" => clock = DrainTimeout

\* C9: after the signal no connection is accepted; a request in flight at
\* the signal that completes during the drain keeps its delivered response;
\* the server stops only once no request is in flight or the drain timeout
\* has elapsed.
C9_GracefulDrain ==
    /\ [][NoAcceptAfterSignal]_vars
    /\ [][StopsOnlyWhenDrained]_vars
    /\ [](server = "Stopped" => \A c \in Conns : conns[c] # "active")

\* C9's case: a request in flight at the signal completed during the drain
\* and the server then stopped before the timeout
C9_Witness ==
    /\ server = "Stopped"
    /\ 0 < clock /\ clock < DrainTimeout
    /\ \E c \in atSignal : conns[c] = "done"

\* C10: once the signal is received the server eventually stops, even when
\* a request in flight never completes; a connection is closed by force
\* only when the 10 seconds of the drain timeout have passed.
C10_ShutdownTerminates ==
    /\ (server = "Draining") ~> (server = "Stopped")
    /\ [](\A c \in Conns : conns[c] = "killed" =>
                /\ server = "Stopped"
                /\ clock = DrainTimeout
                /\ clock = 10)

\* C10's case: a request in flight at the signal never completed and its
\* connection was closed at the timeout
C10_Witness ==
    /\ server = "Stopped"
    /\ clock = DrainTimeout
    /\ \E c \in atSignal : conns[c] = "killed"

(***************************************************************************)
(* The director and the router (RewriteSpec).                              *)
(***************************************************************************)
\* the backend URL of the route the request was dispatched to, as configured
Backend == ParseUrl(config[route].redirectUrl)

\* what follows the route's prefix "/<name>" in the inbound path
Rest == Drop(req.path, 1 + Len(config[route].base))

\* C1: for a route whose backend URL has a base path and a static query, a
\* request to /N/<rest> is forwarded to the backend's scheme and host with
\* the path <base path>/<rest> and the merged query (the request of the
\* scenario carries a query of its own).
C1_ForwardedUnderBackendBasePath ==
    (/\ pc = "handling"
     /\ Backend.path # <<>>
     /\ Backend.rawQuery # <<>>
     /\ req.rawQuery # <<>>) =>
        /\ out.scheme = Backend.scheme
        /\ out.host = Backend.host
        /\ out.path = Backend.path \o Rest
        /\ out.rawQuery = Backend.rawQuery \o <<"&">> \o req.rawQuery

\* C2: the merged query is empty when both queries are empty, the non-empty
\* one unmodified when exactly one is empty, and targetQuery, "&",
\* incomingQuery in that order when neither is.
C2_QueryMerge ==
    pc = "handling" =>
        LET targetQuery   == table[route].targetQuery
            incomingQuery == req.rawQuery
        IN  /\ (targetQuery = <<>> /\ incomingQuery = <<>>) => out.rawQuery = <<>>
            /\ (targetQuery = <<>> /\ incomingQuery # <<>>) => out.rawQuery = incomingQuery
            /\ (targetQuery # <<>> /\ incomingQuery = <<>>) => out.rawQuery = targetQuery
            /\ (targetQuery # <<>> /\ incomingQuery # <<>>) =>
                    /\ Len(out.rawQuery) = Len(targetQuery) + 1 + Len(incomingQuery)
                    /\ SubSeq(out.rawQuery, 1, Len(targetQuery)) = targetQuery
                    /\ out.rawQuery[Len(targetQuery) + 1] = "&"
                    /\ Drop(out.rawQuery, Len(targetQuery) + 1) = incomingQuery

\* C2's case: "k" merged with "q&r" gave "k&q&r"
C2_Witness ==
    /\ pc = "handling"
    /\ table[route].targetQuery = <<"k">>
    /\ req.rawQuery = <<"q", "&", "r">>
    /\ out.rawQuery = <<"k", "&", "q", "&", "r">>

\* C3: a request dispatched to the route with prefix P and backend B is
\* rewritten to B's scheme and host, and its path is the inbound path
\* without the leading P, which begins with "/".
C3_RewriteToBackend ==
    pc = "handling" =>
        /\ out.scheme = Backend.scheme
        /\ out.host = Backend.host
        /\ <<"/">> \o config[route].base \o out.path = req.path
        /\ out.path # <<>> /\ out.path[1] = "/"

\* C3's case: /a/b on route a with backend h://o became h://o/b
C3_Witness ==
    /\ pc = "handling"
    /\ config[route].base = <<"a">>
    /\ req.path = <<"/", "a", "/", "b">>
    /\ out.scheme = <<"h">>
    /\ out.host = <<"o">>
    /\ out.path = <<"/", "b">>

\* C7: a request is dispatched to a route only if its path starts with the
\* route's prefix followed by a slash, and a (clean) path that starts with
\* some route's prefix and a slash is dispatched to a route.
C7_MatchNeedsSlash ==
    /\ route # 0 =>
            LET P == <<"/">> \o config[route].base
            IN  /\ Len(req.path) > Len(P)
                /\ SubSeq(req.path, 1, Len(P)) = P
                /\ req.path[Len(P) + 1] = "/"
    /\ (/\ pc # "idle"
        /\ CleanPath(req.path) = req.path
        /\ \E i \in 1..Len(config) :
                HasPrefix(req.path, <<"/">> \o config[i].base \o <<"/">>))
       => route # 0

\* C7's case: with a route named a, the path /ab/a matched no route
C7_Witness ==
    /\ pc = "notfound"
    /\ req.path = <<"/", "a", "b", "/", "a">>
    /\ \E i \in 1..Len(config) : config[i].base = <<"a">>

(***************************************************************************)
(* The status capture and the access log (HandlerSpec).                    *)
(***************************************************************************)
\* C4: the status in the access-log record is the status sent to the
\* caller, whatever WriteHeader and Write calls the handler made.
C4_LoggedStatusIsSentStatus ==
    pc = "done" => records[Len(records)].status = rw.status

\* C5: a request that reached the logging handler ends with exactly one
\* access-log record, also when the handler aborted.
C5_ExactlyOneRecord ==
    pc \in {"done", "aborted"} => Len(records) = 1

\* C6: a request whose path matches no route gets a not-found response and
\* one access-log record with that status.
C6_NotFoundIsLogged ==
    pc = "notfound" =>
        /\ rw.status = 404
        /\ Len(records) = 1
        /\ records[1].status = 404

\* C11: when the proxy finds the backend unavailable before anything was
\* sent, the handler returns, the caller is sent 502 (Bad Gateway), and the
\* access-log record of the request carries 502.
C11_BackendUnavailableIsLogged ==
    fault = "unavailable" =>
        /\ pc \in {"returned", "logged", "done"}
        /\ rw.wroteHeader /\ rw.status = 502
        /\ pc \in {"logged", "done"} =>
                /\ Len(records) = 1
                /\ records[1].status = 502

\* C11's case: the backend was unavailable and the request is finished
C11_Witness ==
    /\ fault = "unavailable"
    /\ pc = "done"
    /\ rw.status = 502
    /\ records[1].status = 502

\* C12: a record has the field request_id exactly when the request carries
\* a non-empty X-Request-Id header, and its value is then that header's
\* value.
C12_RequestIdEchoed ==
    \A k \in 1..Len(records) :
        LET present == req.xRequestId # <<>> /\ req.xRequestId[1] # <<>>
        IN  /\ ("request_id" \in DOMAIN records[k]) <=> present
            /\ present => records[k].request_id = req.xRequestId[1]

\* C12's case: a request with X-Request-Id "i" was logged with request_id "i"
C12_Witness ==
    /\ pc = "done"
    /\ req.xRequestId = << <<"i">> >>
    /\ Len(records) = 1
    /\ "request_id" \in DOMAIN records[1]
    /\ records[1].request_id = <<"i">>

\* C14: the handler's calls on the wrapper leave the underlying writer as
\* they would have left it had the handler been given the writer itself,
\* the capabilities of that writer included.
C14_PassThrough ==
    pc \in {"proxy", "handling", "returned", "logged", "done", "aborted"} => rw = direct

\* once a status was written, a step of the handler leaves the captured
\* status as it is
StatusKeptAfterFirstWrite ==
    (pc = "handling" /\ rw.wroteHeader) => w' = w

\* C17: the captured status is 200 when the handler starts, and after the
\* handler's first status write no further call changes it.
C17_OverwrittenAtMostOnce ==
    /\ [](pc = "proxy" => w = 200)
    /\ [][StatusKeptAfterFirstWrite]_vars

\* C19: the director leaves the method, the headers (X-Request-Id), the
\* Host field, the body and the remote address of the request as they were.
C19_DirectorFrame ==
    pc = "handling" =>
        /\ out.method = req.method
        /\ out.xRequestId = req.xRequestId
        /\ out.hostField = req.hostField
        /\ out.body = req.body
        /\ out.remoteAddr = req.remoteAddr
        /\ out.preflight = req.preflight

\* C19's case: the director rewrote the URL of a request that has an
\* X-Request-Id
C19_Witness ==
    /\ pc = "handling"
    /\ req.xRequestId = << <<"i">> >>
    /\ out.xRequestId = << <<"i">> >>
    /\ out.host = <<"o">>
    /\ out.hostField = <<"g">>
    /\ out.method = "GET"

(***************************************************************************)
(* Further claims on the router and the director.                          *)
(***************************************************************************)
\* C13: when several route prefixes match the path, the request goes to
\* the route with the longest one, whatever the order of registration.
C13_LongestPrefixWins ==
    route # 0 =>
        \A i \in 1..Len(table) :
            PathPrefixMatch(req.path, table[i].template)
                => Len(table[i].template) <= Len(table[route].template)

\* C18: a director runs only on a path that starts with its route's prefix
\* followed by "/"; the strip then removes the prefix and nothing else, and
\* the rewritten path begins with "/".
C18_DirectorOnlyOnMatchingPath ==
    /\ pc \in {"proxy", "handling"} =>
            LET P == table[route].basePath
            IN  /\ Len(req.path) > Len(P)
                /\ \A k \in 1..Len(P) : req.path[k] = P[k]
                /\ req.path[Len(P) + 1] = "/"
    /\ pc = "handling" =>
            /\ Len(out.path) = Len(req.path) - Len(table[route].basePath)
            /\ \A k \in 1..Len(out.path) :
                    out.path[k] = req.path[Len(table[route].basePath) + k]
            /\ out.path[1] = "/"

\* C18's case: the director of route a/b ran on /a/b/ and left "/"
C18_Witness ==
    /\ pc = "handling"
    /\ table[route].basePath = <<"/", "a", "/", "b">>
    /\ req.path = <<"/", "a", "/", "b", "/">>
    /\ out.path = <<"/">>

\* a step leaves the routes and what their directors captured as they are
TableUnchanged == table' = table

\* C16: a request equal to an earlier one that went to the same route is
\* rewritten to the same result, whatever was served in between, and no
\* call changes the captured target and target query.
C16_DirectorStateless ==
    /\ [](pc = "handling" /\ prev.route = route /\ prev.req = req => out = prev.out)
    /\ [][TableUnchanged]_vars

\* C16's case: a request with a query of its own is rewritten a second
\* time, after the first one was finished
C16_Witness ==
    /\ pc = "handling"
    /\ prev.route = route
    /\ prev.req = req
    /\ req.rawQuery = <<"q">>
    /\ out.rawQuery = <<"k", "&", "q">>
    /\ out = prev.out

\* C15: the status logged for a request is the one its own handler passed
\* last to WriteHeader (200 if it passed none), whatever the other
\* requests do meanwhile, and the route table is not written while serving.
C15_RequestLocalCapture ==
    /\ [](\A i \in Reqs :
            flight[i].pc = "logged" =>
                flight[i].logged = IF flight[i].own = 0 THEN 200 ELSE flight[i].own)
    /\ [][server = "Serving" => TableUnchanged]_vars

\* C15's case: two requests in flight together were logged with the
\* different statuses their handlers wrote
C15_Witness ==
    /\ flight[1].pc = "logged" /\ flight[1].logged = 404 /\ flight[1].own = 404
    /\ flight[2].pc = "logged" /\ flight[2].logged = 502 /\ flight[2].own = 502

====
